---- MODULE Spec2Model ----
(***************************************************************************)
(* Model of lab_4_retrieval_w_clustering/main.py: DocumentVectorDB,        *)
(* ClusterDTO, KMeans and ClusteringSearchEngine.                          *)
(*                                                                         *)
(* A raw text is a sequence of words.  A Vector is a sequence of integers: *)
(* every stored score is a multiple of Scale, so that the coordinate-wise  *)
(* mean of up to MaxDocs vectors is exact.  Distances are squared          *)
(* Euclidean distances (same order and same zero as the Euclidean one);    *)
(* NoDistance stands for None.  Document indices are 0-based as in the     *)
(* code; position p of a Python list is element p + 1 of the sequence.     *)
(***************************************************************************)
EXTENDS Integers, Sequences, FiniteSets, TLC

\* ---------------------------------------------------------------- bounds
MaxDocs == 3
MaxK == 2
MaxClusters == 4
MaxN == 2
MaxLog == 4

\* ------------------------------------------------------------- constants
\* threshold of _is_convergence_reached: 1e-07; two distinct points of the
\* integer grid are at distance >= 1, so "distance > 1e-07" is "distance > 0"
Threshold == 0
\* the value None returned by calculate_distance
NoDistance == -1

StopWords == {"the"}
Terms == <<"cat", "dog">>
Texts == {<<"the">>, <<"cat">>, <<"cat", "cat">>,
          <<"cat", "cat", "cat", "cat">>, <<"dog">>}
QueryTexts == {<<"the">>, <<"cat">>, <<"dog">>}

\* ------------------------------------------------------- generic helpers
RECURSIVE Gcd(_, _)
Gcd(a, b) == IF b = 0 THEN a ELSE Gcd(b, a % b)

RECURSIVE LcmUpTo(_)
LcmUpTo(n) == IF n <= 1 THEN 1 ELSE (LcmUpTo(n - 1) * n) \div Gcd(LcmUpTo(n - 1), n)

Scale == LcmUpTo(MaxDocs)

Range(s) == {s[i] : i \in 1..Len(s)}

RECURSIVE SeqSum(_)
SeqSum(s) == IF s = <<>> THEN 0 ELSE Head(s) + SeqSum(Tail(s))

SeqsUpTo(S, n) == UNION {[1..m -> S] : m \in 0..n}

Count(term, tokens) == Cardinality({i \in 1..Len(tokens) : tokens[i] = term})

\* ------------------------------------------- collaborators (lab 2, lab 3)
\* Tokenizer.tokenize: the words of the text that are not stop words
Tokenize(text) == SelectSeq(text, LAMBDA w : w \notin StopWords)

\* Vectorizer.build: the vocabulary is the ordered set of corpus terms
BuildVocabulary(tokenized_docs) ==
    SelectSeq(Terms, LAMBDA t : \E i \in 1..Len(tokenized_docs) : Count(t, tokenized_docs[i]) > 0)

\* calculate_bm25 behind BM25Vectorizer._calculate_bm25: one score per
\* vocabulary term
CalculateBm25(vocab, tokenized_document) ==
    [i \in 1..Len(vocab) |-> Scale * Count(vocab[i], tokenized_document)]

\* calculate_distance: None on vectors of different shape
CalculateDistance(a, b) ==
    IF Len(a) # Len(b) THEN NoDistance
    ELSE SeqSum([i \in 1..Len(a) |-> (a[i] - b[i]) * (a[i] - b[i])])

\* --------------------------------------------------------- BM25Vectorizer
\* vectorize: "raise" is TRUE where the code raises ValueError
Vectorize(vocab, tokenized_document) ==
    IF tokenized_document = <<>> THEN [raise |-> TRUE, vector |-> <<>>]
    ELSE LET bm25_vector == CalculateBm25(vocab, tokenized_document)
         IN  IF bm25_vector = <<>> THEN [raise |-> TRUE, vector |-> <<>>]
             ELSE [raise |-> FALSE, vector |-> bm25_vector]

\* -------------------------------------------------------- DocumentVectorDB
\* put_corpus, lines 163-164: the raw document is kept only if it has tokens
AppendDocumentAlways(documents_, doc, tok_doc) == Append(documents_, doc)

AppendDocument(documents_, doc, tok_doc) ==
    IF tok_doc # <<>> THEN Append(documents_, doc) ELSE documents_

\* put_corpus, lines 160-165: the loop over the corpus
RECURSIVE TokenizeCorpus(_, _, _, _)
TokenizeCorpus(corpus, documents_, kept, tokenized_docs) ==
    IF corpus = <<>>
    THEN [documents |-> documents_, kept |-> kept, tokenized_docs |-> tokenized_docs]
    ELSE LET doc == Head(corpus)
             tok_doc == Tokenize(doc)
         IN  TokenizeCorpus(Tail(corpus),
                            AppendDocument(documents_, doc, tok_doc),
                            IF tok_doc # <<>> THEN Append(kept, doc) ELSE kept,
                            IF tok_doc # <<>> THEN Append(tokenized_docs, tok_doc)
                                              ELSE tokenized_docs)

\* put_corpus, lines 170-171: the dict comprehension, as the list of its
\* items (ind, vector) in insertion order
VectorizeCorpus(vocab, tokenized_docs) ==
    LET all == [p \in 1..Len(tokenized_docs) |->
                   <<p - 1, Vectorize(vocab, tokenized_docs[p]).vector>>]
    IN  SelectSeq(all, LAMBDA pair : pair[2] # <<>>)

VectorizeRaises(vocab, tokenized_docs) ==
    \E p \in 1..Len(tokenized_docs) : Vectorize(vocab, tokenized_docs[p]).raise

\* get_vectors
GetVectors(vectors_, indices) ==
    IF indices = <<>> THEN vectors_
    ELSE SelectSeq(vectors_, LAMBDA pair : pair[1] \in Range(indices))

\* get_raw_documents, lines 220-223
RECURSIVE UniqueIndices(_, _)
UniqueIndices(indices, unique_indices) ==
    IF indices = <<>> THEN unique_indices
    ELSE UniqueIndices(Tail(indices),
                       IF Head(indices) \in Range(unique_indices) THEN unique_indices
                       ELSE Append(unique_indices, Head(indices)))

\* get_raw_documents: "raise" is TRUE where the list lookup raises IndexError
GetRawDocuments(documents_, indices) ==
    IF indices = <<>> THEN [raise |-> FALSE, docs |-> documents_]
    ELSE LET unique_indices == UniqueIndices(indices, <<>>)
         IN  IF \E i \in 1..Len(unique_indices) : unique_indices[i] + 1 > Len(documents_)
             THEN [raise |-> TRUE, docs |-> <<>>]
             ELSE [raise |-> FALSE,
                   docs |-> [i \in 1..Len(unique_indices) |-> documents_[unique_indices[i] + 1]]]

\* -------------------------------------------------------------- ClusterDTO
\* an argument of add_document_index: an int, or a value of another type
IntArg(v) == [int |-> TRUE, val |-> v]
NonIntArg == [int |-> FALSE, val |-> 0]

ClusterDTO(centroid_vector) == [centroid |-> centroid_vector, indices |-> <<>>]

\* set_new_centroid
SetNewCentroid(cluster, new_centroid) ==
    IF new_centroid = <<>> THEN [raise |-> TRUE, cluster |-> cluster]
    ELSE [raise |-> FALSE, cluster |-> [cluster EXCEPT !.centroid = new_centroid]]

EraseIndices(cluster) == [cluster EXCEPT !.indices = <<>>]

AddDocumentIndexNoCheck(cluster, index) ==
    IF ~index.int \/ index.val < 0 THEN [raise |-> TRUE, cluster |-> cluster]
    ELSE [raise |-> FALSE,
          cluster |-> [cluster EXCEPT !.indices = Append(@, index.val)]]

\* add_document_index
AddDocumentIndex(cluster, index) ==
    IF ~index.int \/ index.val < 0 THEN [raise |-> TRUE, cluster |-> cluster]
    ELSE IF index.val \notin Range(cluster.indices)
         THEN [raise |-> FALSE,
               cluster |-> [cluster EXCEPT !.indices = Append(@, index.val)]]
         ELSE [raise |-> FALSE, cluster |-> cluster]

\* ------------------------------------------------------------------ KMeans
\* list.index: 0-based position of the first element equal to x
IndexOf(list, x) == (CHOOSE p \in 1..Len(list) :
                        list[p] = x /\ \A q \in 1..(p - 1) : list[q] # x) - 1

\* min() of a non-empty list of pairs: least first component, then least
\* second component
MinPairLast(pairs) ==
    CHOOSE m \in Range(pairs) :
        \A o \in Range(pairs) : m[1] < o[1] \/ (m[1] = o[1] /\ m[2] >= o[2])

MinPair(pairs) ==
    CHOOSE m \in Range(pairs) :
        \A o \in Range(pairs) : m[1] < o[1] \/ (m[1] = o[1] /\ m[2] <= o[2])

\* run_single_train_iteration, lines 406-411: the distances of one vector
DistancesTo(vector, centroids) ==
    [c \in 1..Len(centroids) |->
        <<CalculateDistance(vector, centroids[c]), IndexOf(centroids, centroids[c])>>]

\* run_single_train_iteration, lines 405-413: the assignment loop from
\* position p on; it stops where a distance is None or min() has no argument
RECURSIVE AssignLoop(_, _, _, _)
AssignLoop(clusters_, vectors_, centroids, p) ==
    IF p > Len(vectors_) THEN [raise |-> FALSE, clusters |-> clusters_]
    ELSE LET distances == DistancesTo(vectors_[p][2], centroids)
         IN  IF \E c \in 1..Len(distances) : distances[c][1] = NoDistance
             THEN [raise |-> TRUE, clusters |-> clusters_]
             ELSE IF distances = <<>>
             THEN [raise |-> TRUE, clusters |-> clusters_]
             ELSE LET closest_centroid == MinPair(distances)[2]
                      added == AddDocumentIndex(clusters_[closest_centroid + 1],
                                                IntArg(IndexOf(vectors_, vectors_[p])))
                  IN  AssignLoop([clusters_ EXCEPT ![closest_centroid + 1] = added.cluster],
                                 vectors_, centroids, p + 1)

\* line 417: tuple(sum(scores) / len(scores) for scores in zip(*cluster_vectors))
Mean(cluster_vectors) ==
    IF cluster_vectors = <<>> THEN <<>>
    ELSE [d \in 1..Len(cluster_vectors[1]) |->
             SeqSum([m \in 1..Len(cluster_vectors) |-> cluster_vectors[m][d]])
                 \div Len(cluster_vectors)]

\* run_single_train_iteration, lines 415-418: the centroid loop from cluster
\* c on; it stops at the first cluster whose new centroid is rejected
RECURSIVE UpdateLoop(_, _, _)
UpdateLoop(clusters_, vectors_, c) ==
    IF c > Len(clusters_) THEN [raise |-> FALSE, clusters |-> clusters_]
    ELSE LET indices == clusters_[c].indices
             cluster_vectors == [m \in 1..Len(indices) |-> vectors_[indices[m] + 1][2]]
             set == SetNewCentroid(clusters_[c], Mean(cluster_vectors))
         IN  IF set.raise THEN [raise |-> TRUE, clusters |-> clusters_]
             ELSE UpdateLoop([clusters_ EXCEPT ![c] = set.cluster], vectors_, c + 1)

\* run_single_train_iteration: the clusters it leaves, whether it raised,
\* and the loop it was in when it raised
RunSingleTrainIteration(clusters_, vectors_) ==
    LET erased == [c \in 1..Len(clusters_) |-> EraseIndices(clusters_[c])]
        centroids == [c \in 1..Len(clusters_) |-> clusters_[c].centroid]
        assigned == AssignLoop(erased, GetVectors(vectors_, <<>>), centroids, 1)
        updated == UpdateLoop(assigned.clusters, GetVectors(vectors_, <<>>), 1)
    IN  IF assigned.raise
        THEN [raise |-> TRUE, clusters |-> assigned.clusters, stage |-> "assign"]
        ELSE [raise |-> updated.raise, clusters |-> updated.clusters,
              stage |-> IF updated.raise THEN "update" ELSE "done"]

\* the test with "distance >= threshold" in place of "distance > threshold"
IsConvergenceReachedStrict(clusters_, new_clusters) ==
    IF new_clusters = <<>> THEN [raise |-> TRUE, reached |-> FALSE]
    ELSE LET m == IF Len(clusters_) < Len(new_clusters) THEN Len(clusters_)
                  ELSE Len(new_clusters)
             dist(c) == CalculateDistance(clusters_[c].centroid, new_clusters[c].centroid)
         IN  IF \E c \in 1..m : dist(c) = NoDistance /\ \A b \in 1..(c - 1) : dist(b) < Threshold
             THEN [raise |-> TRUE, reached |-> FALSE]
             ELSE [raise |-> FALSE, reached |-> \A c \in 1..m : dist(c) < Threshold]

\* _is_convergence_reached, called by train with the list that
\* run_single_train_iteration returned, which is self.__clusters itself
IsConvergenceReached(clusters_, new_clusters) ==
    IF new_clusters = <<>> THEN [raise |-> TRUE, reached |-> FALSE]
    ELSE LET old_centroids == [c \in 1..Len(clusters_) |-> clusters_[c].centroid]
             new_centroids == [c \in 1..Len(new_clusters) |-> new_clusters[c].centroid]
             m == IF Len(old_centroids) < Len(new_centroids)
                  THEN Len(old_centroids) ELSE Len(new_centroids)
             dist(c) == CalculateDistance(old_centroids[c], new_centroids[c])
         IN  IF \E c \in 1..m : dist(c) = NoDistance /\ \A b \in 1..(c - 1) : dist(b) <= Threshold
             THEN [raise |-> TRUE, reached |-> FALSE]
             ELSE [raise |-> FALSE, reached |-> \A c \in 1..m : dist(c) <= Threshold]

\* sorted(pairs, key=lambda pair: pair[0]): stable insertion sort
RECURSIVE InsertByDistance(_, _)
InsertByDistance(sorted, pair) ==
    IF sorted = <<>> THEN <<pair>>
    ELSE IF sorted[Len(sorted)][1] <= pair[1] THEN Append(sorted, pair)
    ELSE Append(InsertByDistance(SubSeq(sorted, 1, Len(sorted) - 1), pair),
                sorted[Len(sorted)])

RECURSIVE SortedByDistance(_)
SortedByDistance(pairs) ==
    IF pairs = <<>> THEN <<>>
    ELSE InsertByDistance(SortedByDistance(SubSeq(pairs, 1, Len(pairs) - 1)),
                          pairs[Len(pairs)])

FirstN(s, n) == SubSeq(s, 1, IF n < Len(s) THEN n ELSE Len(s))

\* infer: status is "ok", "ValueError" or "IndexError"
Infer(clusters_, vectors_, query_vector, n_neighbours) ==
    IF query_vector = <<>> \/ n_neighbours <= 0
    THEN [status |-> "ValueError", result |-> <<>>]
    ELSE LET comparable == {c \in 1..Len(clusters_) : clusters_[c].centroid # <<>>}
             cent(c) == CalculateDistance(query_vector, clusters_[c].centroid)
             cent_distances == SelectSeq([c \in 1..Len(clusters_) |-> <<cent(c), c - 1>>],
                                         LAMBDA pair : (pair[2] + 1) \in comparable)
         IN  IF \E c \in comparable : cent(c) = NoDistance
             THEN [status |-> "ValueError", result |-> <<>>]
             ELSE LET closest_cluster == IF cent_distances = <<>> THEN 0
                                         ELSE MinPair(cent_distances)[2]
                  IN  IF closest_cluster + 1 > Len(clusters_)
                      THEN [status |-> "IndexError", result |-> <<>>]
                      ELSE LET doc_indices == clusters_[closest_cluster + 1].indices
                               doc_vectors == GetVectors(vectors_, doc_indices)
                               doc_distances ==
                                   [v \in 1..Len(doc_vectors) |->
                                       <<CalculateDistance(query_vector, doc_vectors[v][2]),
                                         doc_vectors[v][1]>>]
                           IN  IF \E v \in 1..Len(doc_distances) :
                                      doc_distances[v][1] = NoDistance
                               THEN [status |-> "ValueError", result |-> <<>>]
                               ELSE [status |-> "ok",
                                     result |-> FirstN(SortedByDistance(doc_distances),
                                                       n_neighbours)]

\* get_clusters_info, lines 476-487: the entry of the cluster at position index
ClusterInfo(cluster, index, vectors_, documents_, num_examples) ==
    LET cluster_vectors == GetVectors(vectors_, cluster.indices)
        distances == [v \in 1..Len(cluster_vectors) |->
                         <<CalculateDistance(cluster.centroid, cluster_vectors[v][2]),
                           cluster_vectors[v][1]>>]
    IN  IF \E v \in 1..Len(distances) : distances[v][1] = NoDistance
        THEN [status |-> "ValueError", entry |-> <<>>]
        ELSE LET sorted == SortedByDistance(distances)
                 docs == GetRawDocuments(documents_,
                                         [i \in 1..Len(sorted) |-> sorted[i][2]])
             IN  IF docs.raise
                 THEN [status |-> "IndexError", entry |-> <<>>]
                 ELSE [status |-> "ok",
                       entry |-> [cluster_id |-> index,
                                  documents |-> FirstN(docs.docs, num_examples)]]

\* get_clusters_info: status is "ok", "ValueError" or "IndexError"
GetClustersInfo(clusters_, vectors_, documents_, num_examples) ==
    IF num_examples <= 0 THEN [status |-> "ValueError", info |-> <<>>]
    ELSE LET one(c) == ClusterInfo(clusters_[c], c - 1, vectors_, documents_, num_examples)
             failed == {c \in 1..Len(clusters_) : one(c).status # "ok"}
         IN  IF failed # {}
             THEN [status |-> one(CHOOSE c \in failed : \A b \in failed : c <= b).status,
                   info |-> <<>>]
             ELSE [status |-> "ok", info |-> [c \in 1..Len(clusters_) |-> one(c).entry]]

\* ------------------------------------------------------------------- state
VARIABLES
    documents,    \* DocumentVectorDB.__documents
    vectors,      \* DocumentVectorDB.__vectors, as the list of its items
    vocabulary,   \* the vocabulary of the database's vectorizer
    n_clusters,   \* KMeans._n_clusters
    clusters,     \* KMeans.__clusters
    pc,           \* position inside train / retrieve_relevant_documents
    call,         \* the public call in progress and its arguments
    vecText,      \* history: the raw text each stored vector was built from
    iter,         \* history: the most recent run_single_train_iteration
    last,         \* history: the most recent completed call and its outcome
    prev,         \* history: the retrieve call with the same arguments completed
                  \* right before "last"
    dto,          \* a ClusterDTO used on its own
    dtoLog,       \* history: indices accepted by dto since the last erase
    dtoLast       \* history: the most recent call on dto

vars == <<documents, vectors, vocabulary, n_clusters, clusters, pc, call,
          vecText, iter, last, prev, dto, dtoLog, dtoLast>>

dbVars == <<documents, vectors, vocabulary, vecText>>
dtoVars == <<dto, dtoLog, dtoLast>>

NoCall == [op |-> "none", query |-> <<>>, qv |-> <<>>, n |-> 0]
NoIter == [stage |-> "none", pre |-> <<>>]
NoLast == [op |-> "none", status |-> "none", query |-> <<>>, qv |-> <<>>, n |-> 0,
           inference |-> <<>>, result |-> <<>>, info |-> <<>>]
NoDtoLast == [op |-> "none", arg |-> NonIntArg, before |-> ClusterDTO(<<Scale>>),
              raised |-> FALSE]

Done(op, status) == [NoLast EXCEPT !.op = op, !.status = status]
PutDone(corpus, status) == [Done("put", status) EXCEPT !.query = corpus]

Init ==
    /\ documents = <<>>
    /\ vectors = <<>>
    /\ vocabulary = <<>>
    /\ n_clusters \in 1..MaxK
    /\ clusters = <<>>
    /\ pc = "idle"
    /\ call = NoCall
    /\ vecText = <<>>
    /\ iter = NoIter
    /\ last = NoLast
    /\ prev = NoLast
    /\ dto = ClusterDTO(<<Scale>>)
    /\ dtoLog = <<>>
    /\ dtoLast = NoDtoLast

\* ------------------------------------------------- DocumentVectorDB actions
\* put_corpus(corpus); is_list is FALSE for an argument that is not a list.
\* The database is filled before the first clusters are seeded on it.
PutCorpus(is_list, corpus) ==
    /\ pc = "idle"
    /\ clusters = <<>>
    /\ Len(documents) + Len(corpus) <= MaxDocs
    /\ prev' = NoLast
    /\ iter' = NoIter
    /\ UNCHANGED <<n_clusters, clusters, pc, call, dtoVars>>
    /\ IF ~is_list \/ corpus = <<>>
       THEN /\ last' = PutDone(corpus, "ValueError")
            /\ UNCHANGED dbVars
       ELSE LET t == TokenizeCorpus(corpus, documents, <<>>, <<>>)
                vocab == BuildVocabulary(t.tokenized_docs)
                items == VectorizeCorpus(vocab, t.tokenized_docs)
            IN  /\ documents' = t.documents
                /\ IF t.tokenized_docs = <<>>
                   THEN /\ last' = PutDone(corpus, "ValueError")
                        /\ UNCHANGED <<vectors, vocabulary, vecText>>
                   ELSE /\ vocabulary' = vocab
                        /\ IF VectorizeRaises(vocab, t.tokenized_docs)
                           THEN /\ last' = PutDone(corpus, "ValueError")
                                /\ UNCHANGED <<vectors, vecText>>
                           ELSE /\ last' = Done("put", "ok")
                                /\ vectors' = items
                                /\ vecText' = [p \in 1..Len(items) |-> t.kept[items[p][1] + 1]]

\* ----------------------------------------------------------- KMeans actions
\* train, lines 381-383: the seed clusters
Seeded == clusters \o [c \in 1..Len(FirstN(GetVectors(vectors, <<>>), n_clusters)) |->
                          ClusterDTO(GetVectors(vectors, <<>>)[c][2])]

\* KMeans.train(): entry and seeding
Train ==
    /\ pc = "idle"
    /\ Len(Seeded) <= MaxClusters
    /\ clusters' = Seeded
    /\ pc' = "iter"
    /\ call' = [NoCall EXCEPT !.op = "train"]
    /\ last' = NoLast
    /\ prev' = NoLast
    /\ iter' = NoIter
    /\ UNCHANGED <<dbVars, n_clusters, dtoVars>>

\* train, line 385: one pass of the loop body
TrainIter ==
    /\ pc = "iter"
    /\ LET r == RunSingleTrainIteration(clusters, vectors)
       IN  /\ clusters' = r.clusters
           /\ iter' = [stage |-> r.stage,
                       pre |-> [c \in 1..Len(clusters) |-> clusters[c].centroid]]
           /\ IF r.raise
              THEN /\ pc' = "idle"
                   /\ last' = [Done(call.op, "ValueError") EXCEPT
                                  !.query = call.query, !.qv = call.qv, !.n = call.n]
                   /\ call' = NoCall
              ELSE /\ pc' = "check"
                   /\ UNCHANGED <<last, call>>
    /\ UNCHANGED <<dbVars, n_clusters, prev, dtoVars>>

\* train, lines 386-387: the convergence test on the returned list, which is
\* the cluster list itself
TrainCheck ==
    /\ pc = "check"
    /\ LET new_clusters == clusters
           r == IsConvergenceReached(clusters, new_clusters)
       IN  IF r.raise
           THEN /\ pc' = "idle"
                /\ last' = [Done(call.op, "ValueError") EXCEPT
                               !.query = call.query, !.qv = call.qv, !.n = call.n]
                /\ call' = NoCall
           ELSE IF ~r.reached
           THEN /\ pc' = "iter"
                /\ UNCHANGED <<last, call>>
           ELSE IF call.op = "train"
           THEN /\ pc' = "idle"
                /\ last' = Done("train", "ok")
                /\ call' = NoCall
           ELSE /\ pc' = "infer"
                /\ UNCHANGED <<last, call>>
    /\ UNCHANGED <<dbVars, n_clusters, clusters, iter, prev, dtoVars>>

\* KMeans.run_single_train_iteration() called on its own
RunIteration ==
    /\ pc = "idle"
    /\ LET r == RunSingleTrainIteration(clusters, vectors)
       IN  /\ clusters' = r.clusters
           /\ iter' = [stage |-> r.stage,
                       pre |-> [c \in 1..Len(clusters) |-> clusters[c].centroid]]
           /\ last' = Done("iter", IF r.raise THEN "ValueError" ELSE "ok")
    /\ prev' = NoLast
    /\ UNCHANGED <<dbVars, n_clusters, pc, call, dtoVars>>

\* KMeans.infer(query_vector, n_neighbours) called on its own
InferCall(query_vector, n_neighbours) ==
    /\ pc = "idle"
    /\ LET r == Infer(clusters, vectors, query_vector, n_neighbours)
       IN  last' = IF query_vector = <<>> \/ n_neighbours <= 0
                   THEN Done("infer", r.status)
                   ELSE [Done("infer", r.status) EXCEPT
                            !.qv = query_vector, !.n = n_neighbours, !.inference = r.result]
    /\ prev' = NoLast
    /\ UNCHANGED <<dbVars, n_clusters, clusters, pc, call, iter, dtoVars>>

\* KMeans.get_clusters_info(num_examples)
ClustersInfoCall(num_examples) ==
    /\ pc = "idle"
    /\ LET r == GetClustersInfo(clusters, vectors, documents, num_examples)
       IN  last' = IF num_examples <= 0
                   THEN Done("info", r.status)
                   ELSE [Done("info", r.status) EXCEPT !.n = num_examples, !.info = r.info]
    /\ prev' = NoLast
    /\ UNCHANGED <<dbVars, n_clusters, clusters, pc, call, iter, dtoVars>>

\* ------------------------------------------- ClusteringSearchEngine actions
\* retrieve_relevant_documents, lines 574-583: argument checks, the query
\* vector, and the entry of train
Retrieve(query, n_neighbours) ==
    /\ pc = "idle"
    /\ prev' = IF last.op = "retrieve" /\ last.query = query /\ last.n = n_neighbours
               THEN last ELSE NoLast
    /\ iter' = NoIter
    /\ UNCHANGED <<dbVars, n_clusters, dtoVars>>
    /\ LET query_tokens == Tokenize(query)
           v == Vectorize(vocabulary, query_tokens)
           failed == Done("retrieve", "ValueError")
       IN  IF query = <<>> \/ n_neighbours <= 0 \/ query_tokens = <<>> \/ v.raise
           THEN /\ last' = failed
                /\ UNCHANGED <<clusters, pc, call>>
           ELSE /\ Len(Seeded) <= MaxClusters
                /\ clusters' = Seeded
                /\ pc' = "iter"
                /\ call' = [op |-> "retrieve", query |-> query, qv |-> v.vector,
                            n |-> n_neighbours]
                /\ last' = NoLast

\* retrieve_relevant_documents, lines 584-586: inference and the raw texts
RetrieveInfer ==
    /\ pc = "infer"
    /\ LET inference == Infer(clusters, vectors, call.qv, call.n)
           docs == GetRawDocuments(documents,
                                   [i \in 1..Len(inference.result) |-> inference.result[i][2]])
           out == [Done("retrieve", "ok") EXCEPT
                      !.query = call.query, !.qv = call.qv, !.n = call.n]
       IN  last' = IF inference.status # "ok" THEN [out EXCEPT !.status = inference.status]
                   ELSE IF docs.raise \/ Len(docs.docs) < Len(inference.result)
                   THEN [out EXCEPT !.status = "IndexError"]
                   ELSE [out EXCEPT !.inference = inference.result,
                                    !.result = [i \in 1..Len(inference.result) |->
                                                   <<inference.result[i][1], docs.docs[i]>>]]
    /\ pc' = "idle"
    /\ call' = NoCall
    /\ UNCHANGED <<dbVars, n_clusters, clusters, iter, prev, dtoVars>>

\* --------------------------------------------------- ClusterDTO on its own
DtoAddDocumentIndex(index) ==
    /\ Len(dtoLog) < MaxLog
    /\ LET r == AddDocumentIndex(dto, index)
       IN  /\ dto' = r.cluster
           /\ dtoLog' = IF index.int /\ index.val >= 0 THEN Append(dtoLog, index.val)
                        ELSE dtoLog
           /\ dtoLast' = [op |-> "add", arg |-> index, before |-> dto, raised |-> r.raise]
    /\ UNCHANGED <<dbVars, n_clusters, clusters, pc, call, iter, last, prev>>

DtoEraseIndices ==
    /\ dto' = EraseIndices(dto)
    /\ dtoLog' = <<>>
    /\ dtoLast' = [op |-> "erase", arg |-> NonIntArg, before |-> dto, raised |-> FALSE]
    /\ UNCHANGED <<dbVars, n_clusters, clusters, pc, call, iter, last, prev>>

DtoSetNewCentroid(new_centroid) ==
    /\ LET r == SetNewCentroid(dto, new_centroid)
       IN  /\ dto' = r.cluster
           /\ dtoLast' = [op |-> "set", arg |-> NonIntArg, before |-> dto, raised |-> r.raise]
    /\ UNCHANGED <<dtoLog, dbVars, n_clusters, clusters, pc, call, iter, last, prev>>

\* ---------------------------------------------------------- specifications
QueryVectors == {<<>>} \cup {Vectorize(vocabulary, Tokenize(q)).vector : q \in QueryTexts}
DtoArgs == {NonIntArg} \cup {IntArg(v) : v \in (-1)..2}
DtoCentroids == {<<>>, <<0>>, <<Scale>>}

Next ==
    \/ \E corpus \in SeqsUpTo(Texts, MaxDocs) : PutCorpus(TRUE, corpus)
    \/ PutCorpus(FALSE, <<>>)
    \/ Train
    \/ TrainIter
    \/ TrainCheck
    \/ RunIteration
    \/ \E qv \in QueryVectors, n \in 0..MaxN : InferCall(qv, n)
    \/ \E m \in 0..MaxN : ClustersInfoCall(m)
    \/ \E q \in QueryTexts, n \in 0..MaxN : Retrieve(q, n)
    \/ RetrieveInfer

Spec == Init /\ [][Next]_vars

NextDTO ==
    \/ \E index \in DtoArgs : DtoAddDocumentIndex(index)
    \/ DtoEraseIndices
    \/ \E c \in DtoCentroids : DtoSetNewCentroid(c)

\* the database on its own
NextDB ==
    \/ \E corpus \in SeqsUpTo(Texts, MaxDocs) : PutCorpus(TRUE, corpus)
    \/ PutCorpus(FALSE, <<>>)

SpecDB == Init /\ [][NextDB]_vars

\* the database and the training operations of KMeans
NextKM ==
    \/ \E corpus \in SeqsUpTo(Texts, MaxDocs) : PutCorpus(TRUE, corpus)
    \/ PutCorpus(FALSE, <<>>)
    \/ Train
    \/ TrainIter
    \/ TrainCheck
    \/ RunIteration

SpecKM == Init /\ [][NextKM]_vars

\* train, lines 384-387: a call that stands at a step of the loop takes it; the
\* code is synchronous and nothing suspends it between two steps
TrainStep ==
    /\ pc \in {"iter", "check"}
    /\ pc' \in {"idle", "iter", "check", "infer"}
    /\ pc' # pc

SpecKMFair == SpecKM /\ WF_pc(TrainStep)

SpecDTO == Init /\ [][NextDTO]_vars

\* ------------------------------------------------------------------ claims
NoDuplicates(s) == \A i, j \in 1..Len(s) : i # j => s[i] # s[j]

\* the lowest-indexed centroid at minimum distance from vector v
NearestCentroid(v, centroids) ==
    CHOOSE c \in 1..Len(centroids) :
        /\ \A o \in 1..Len(centroids) :
               CalculateDistance(v, centroids[c]) <= CalculateDistance(v, centroids[o])
        /\ \A o \in 1..(c - 1) :
               CalculateDistance(v, centroids[o]) > CalculateDistance(v, centroids[c])

CentroidsOf(clusters_) == [c \in 1..Len(clusters_) |-> clusters_[c].centroid]

\* C1: after any sequence of put_corpus calls there are at most as many
\* vectors as documents, and the vector stored under key i was computed from
\* the document at position i of the document list.
C1_VectorsAlignedWithDocuments ==
    /\ Len(vectors) <= Len(documents)
    /\ \A p \in 1..Len(vectors) :
           /\ vectors[p][1] + 1 <= Len(documents)
           /\ documents[vectors[p][1] + 1] = vecText[p]

\* C2: once train has been called on a database with at least n_clusters
\* vectors, the cluster list has exactly n_clusters entries, whatever the
\* number of train or retrieve_relevant_documents calls.
C2_ClusterCountFixed ==
    (pc = "idle" /\ clusters # <<>> /\ Len(vectors) >= n_clusters)
        => Len(clusters) = n_clusters

\* C3: when the assignment step of run_single_train_iteration leaves a
\* cluster without members, the iteration completes without raising and that
\* cluster keeps the centroid it had before the iteration.
C3_EmptyClusterKeepsCentroid ==
    (/\ iter.stage \in {"update", "done"}
     /\ \E c \in 1..Len(clusters) : clusters[c].indices = <<>>)
        => /\ iter.stage = "done"
           /\ \A c \in 1..Len(clusters) :
                  clusters[c].indices = <<>> => clusters[c].centroid = iter.pre[c]

\* C4: when train() has returned, one further run_single_train_iteration
\* moves no centroid by more than the threshold.
C4_TrainReturnsConverged ==
    (last.op = "train" /\ last.status = "ok")
        => LET further == RunSingleTrainIteration(clusters, vectors).clusters
           IN  \A c \in 1..Len(clusters) :
                   LET d == CalculateDistance(clusters[c].centroid, further[c].centroid)
                   IN  d # NoDistance /\ d <= Threshold

\* C5: every (distance, index) pair returned by infer has its index in the
\* membership list of the cluster whose centroid is nearest to the query,
\* the lowest-indexed one on ties.
C5_InferStaysInNearestCluster ==
    (last.op \in {"infer", "retrieve"} /\ last.status = "ok" /\ Len(clusters) >= 1)
        => \A i \in 1..Len(last.inference) :
               last.inference[i][2] \in
                   Range(clusters[NearestCentroid(last.qv, CentroidsOf(clusters))].indices)

\* C6: two successive retrieve_relevant_documents calls with the same valid
\* query and the same n on a populated database both succeed and return the
\* same list; stated for the case where the first of the two succeeded.
C6_RepeatedRetrievalReproducible ==
    (/\ last.op = "retrieve" /\ prev.op = "retrieve"
     /\ last.query = prev.query /\ last.n = prev.n
     /\ Tokenize(last.query) # <<>> /\ last.n >= 1 /\ vectors # <<>>
     /\ prev.status = "ok")
        => /\ last.status = "ok"
           /\ last.result = prev.result

\* C7: a list returned by retrieve_relevant_documents has at most n entries,
\* scores in non-decreasing order, and each score is paired with the raw text
\* of a document whose stored vector is at that distance from the query.
C7_RetrieveRankedTexts ==
    (last.op = "retrieve" /\ last.status = "ok")
        => /\ Len(last.result) <= last.n
           /\ \A i \in 1..(Len(last.result) - 1) : last.result[i][1] <= last.result[i + 1][1]
           /\ \A i \in 1..Len(last.result) :
                  \E p \in 1..Len(vectors) :
                      /\ vecText[p] = last.result[i][2]
                      /\ CalculateDistance(last.qv, vectors[p][2]) = last.result[i][1]

\* C8: a put_corpus call that raises ValueError (corpus empty, not a list, or
\* with no document that has tokens) leaves the document list and the vector
\* mapping as they were before the call.
C8_FailedPutKeepsState ==
    [][(last'.op = "put" /\ last'.status = "ValueError")
          => (documents' = documents /\ vectors' = vectors)]_vars

\* a put of a non-empty corpus of token-less documents failed on a filled database
C8_Witness ==
    /\ last.op = "put" /\ last.status = "ValueError"
    /\ last.query # <<>>
    /\ documents # <<>> /\ vectors # <<>>

\* the order of first insertion of the values of a log
FirstInsertions(log) ==
    LET firsts == {i \in 1..Len(log) : \A j \in 1..(i - 1) : log[j] # log[i]}
        rank(i) == Cardinality({j \in firsts : j <= i})
    IN  [r \in 1..Cardinality(firsts) |-> log[CHOOSE i \in firsts : rank(i) = r]]

\* C9: the membership list of a ClusterDTO has no duplicate and no negative
\* index and is in first-insertion order; adding a present index changes
\* nothing, adding a negative or non-integer index raises ValueError and
\* changes nothing.
C9_MembershipIsOrderedSet ==
    /\ NoDuplicates(dto.indices)
    /\ \A i \in 1..Len(dto.indices) : dto.indices[i] >= 0
    /\ dto.indices = FirstInsertions(dtoLog)
    /\ (dtoLast.op = "add" /\ (~dtoLast.arg.int \/ dtoLast.arg.val < 0))
           => (dtoLast.raised /\ dto = dtoLast.before)
    /\ (dtoLast.op = "add" /\ dtoLast.arg.int /\ dtoLast.arg.val >= 0)
           => /\ ~dtoLast.raised
              /\ dto.centroid = dtoLast.before.centroid
              /\ dtoLast.arg.val \in Range(dtoLast.before.indices) => dto = dtoLast.before

\* an index already present was added again to a cluster of several members
C9_Witness ==
    /\ dtoLast.op = "add" /\ dtoLast.arg.int
    /\ dtoLast.arg.val \in Range(dtoLast.before.indices)
    /\ Len(dto.indices) >= 2
    /\ Len(dtoLog) > Len(dto.indices)

\* C10: after a run_single_train_iteration that completes, every stored
\* vector index is a member of exactly one cluster, the lowest-indexed one
\* among those whose centroid before the iteration was nearest to the vector,
\* and the clusters have no other members.
C10_MembershipsPartitionVectors ==
    iter.stage = "done"
        => /\ \A p \in 1..Len(vectors) :
                  {c \in 1..Len(clusters) : vectors[p][1] \in Range(clusters[c].indices)}
                      = {NearestCentroid(vectors[p][2], iter.pre)}
           /\ \A c \in 1..Len(clusters) :
                  /\ NoDuplicates(clusters[c].indices)
                  /\ Range(clusters[c].indices) \subseteq {vectors[p][1] : p \in 1..Len(vectors)}

\* an iteration completed in which a vector was at the same distance from
\* two different centroids and a later vector joined a cluster it is not the
\* seed of
C10_Witness ==
    /\ iter.stage = "done"
    /\ Len(clusters) >= 2
    /\ Len(vectors) >= 3
    /\ \E p \in 1..Len(vectors) : \E a, b \in 1..Len(iter.pre) :
           /\ a < b
           /\ iter.pre[a] # iter.pre[b]
           /\ CalculateDistance(vectors[p][2], iter.pre[a])
                  = CalculateDistance(vectors[p][2], iter.pre[b])
           /\ vectors[p][1] \in Range(clusters[a].indices)

\* C11: train() terminates: once its loop is entered it is left, by return
\* or by a raised error, after finitely many iterations.
C11_TrainTerminates == (pc = "iter") ~> (pc \notin {"iter", "check"})

\* train returned on a database of several vectors after an iteration that
\* moved a centroid
C11_Witness ==
    /\ last.op = "train" /\ last.status = "ok"
    /\ pc = "idle"
    /\ Len(vectors) >= 2
    /\ iter.stage = "done"
    /\ \E c \in 1..Len(clusters) : clusters[c].centroid # iter.pre[c]

\* C12: get_clusters_info(m) with m >= 1 returns one entry per cluster in list
\* order; the entry at position c has cluster_id c and at most m documents,
\* each the raw text of a distinct member of cluster c, in ascending order of
\* the distance of the member's vector to the centroid; a cluster without
\* members has no documents.
C12_ClustersInfoOfMembers ==
    (last.op = "info" /\ last.status = "ok" /\ last.n >= 1)
        => /\ Len(last.info) = Len(clusters)
           /\ \A c \in 1..Len(clusters) :
                  LET docs == last.info[c].documents
                      members == {p \in 1..Len(vectors) :
                                     /\ vectors[p][1] \in Range(clusters[c].indices)
                                     /\ vectors[p][1] + 1 <= Len(documents)}
                      dist(p) == CalculateDistance(clusters[c].centroid, vectors[p][2])
                  IN  /\ last.info[c].cluster_id = c - 1
                      /\ Len(docs) <= last.n
                      /\ \E order \in [1..Len(docs) -> members] :
                             /\ \A i, j \in 1..Len(docs) :
                                    i < j => /\ order[i] # order[j]
                                             /\ dist(order[i]) <= dist(order[j])
                             /\ \A i \in 1..Len(docs) :
                                    docs[i] = documents[vectors[order[i]][1] + 1]
                      /\ (clusters[c].indices = <<>> => docs = <<>>)

\* C13: infer with a non-empty query vector and n >= 1 raises nothing but
\* ValueError in any KMeans state, one never trained included; when no
\* cluster has a defined centroid it falls back to cluster 0 and returns a
\* list of at most n pairs in ascending order of distance.
C13_InferRaisesOnlyValueError ==
    (last.op = "infer" /\ last.qv # <<>> /\ last.n >= 1)
        => /\ last.status \in {"ok", "ValueError"}
           /\ (\A c \in 1..Len(clusters) : clusters[c].centroid = <<>>)
                  => /\ last.status = "ok"
                     /\ Len(last.inference) <= last.n
                     /\ \A i \in 1..(Len(last.inference) - 1) :
                            last.inference[i][1] <= last.inference[i + 1][1]
====
